---- MODULE Spec2Model ----
(***************************************************************************)
(* Model of datasette_publish_dokploy: the `datasette publish dokploy`     *)
(* command (_publish), its requirement resolution, the two deployment      *)
(* triggers and the curl-based HTTP caller (_curl_check).                   *)
(*                                                                         *)
(* Texts are sequences of atoms.  An atom is a single character where the  *)
(* code looks at characters (strip, rstrip, lower, startswith, int, JSON   *)
(* escaping) and a whole literal fragment where the code only copies a     *)
(* literal it wrote itself.  An optional value (Python None or a string)   *)
(* is a record [some, val].                                                *)
(***************************************************************************)
EXTENDS Integers, Sequences, FiniteSets, TLC

VARIABLES
    opts,        \* the keyword arguments _publish was called with
    pc,          \* position of the run inside _publish
    bundle,      \* files of the temporary bundle directory: name -> text
    generated,   \* files copied to the generate directory: name -> text
    calls,       \* external processes run so far, in order, with exit codes
    out,         \* texts echoed to standard output
    exit_code,   \* process exit status once the run has ended
    err,         \* the exception that ended the run: [kind, msg]
    curl_in,     \* last outcome of the curl process handed to _curl_check
    curl_res,    \* what _curl_check made of it: [ok, body, msg]
    req_in,      \* requirement handed to _looks_like_datasette_requirement
    req_res      \* what _looks_like_datasette_requirement answered

vars == <<opts, pc, bundle, generated, calls, out, exit_code, err, curl_in, curl_res,
          req_in, req_res>>

----------------------------------------------------------------------------
(* Bounds of the model *)

MaxUrlLen == 2
MaxIdLen == 1
MaxInstall == 2
MaxStdoutLen == 3
MaxBodyLen == 1
MaxTailLen == 2

----------------------------------------------------------------------------
(* Optional values and texts *)

None == [some |-> FALSE, val |-> <<>>]
Some(v) == [some |-> TRUE, val |-> v]

\* Python truthiness of an optional string: neither None nor "".
Truthy(x) == x.some /\ x.val # <<>>

Range(s) == {s[i] : i \in 1..Len(s)}

SeqsUpTo(S, n) == UNION {[1..k -> S] : k \in 0..n}

Whitespace == {" ", "\n", "\t"}

\* str.lstrip(chars) / str.rstrip(chars) / str.strip()
LStripChars(s, cs) ==
    LET keep == {i \in 1..Len(s) : s[i] \notin cs}
    IN  IF keep = {} THEN <<>>
        ELSE SubSeq(s, CHOOSE i \in keep : \A j \in keep : i <= j, Len(s))

RStripChars(s, cs) ==
    LET keep == {i \in 1..Len(s) : s[i] \notin cs}
    IN  IF keep = {} THEN <<>>
        ELSE SubSeq(s, 1, CHOOSE i \in keep : \A j \in keep : j <= i)

Strip(s) == LStripChars(RStripChars(s, Whitespace), Whitespace)

\* str.lower() on the characters the model uses
LowerChar(c) ==
    CASE c = "D" -> "d"
      [] c = "A" -> "a"
      [] c = "T" -> "t"
      [] c = "S" -> "s"
      [] c = "E" -> "e"
      [] OTHER -> c

Lower(s) == [i \in 1..Len(s) |-> LowerChar(s[i])]

StartsWith(s, p) == Len(s) >= Len(p) /\ SubSeq(s, 1, Len(p)) = p

\* sep.join(parts)
RECURSIVE Join(_, _)
Join(parts, sep) ==
    IF parts = <<>> THEN <<>>
    ELSE IF Len(parts) = 1 THEN parts[1]
    ELSE parts[1] \o sep \o Join(Tail(parts), sep)

\* Flatten a sequence of texts
RECURSIVE Concat(_)
Concat(parts) == IF parts = <<>> THEN <<>> ELSE parts[1] \o Concat(Tail(parts))

----------------------------------------------------------------------------
(* Decimal integers: int(text) and str(int) *)

Digits == {"0", "1", "2", "3", "4", "5", "6", "7", "8", "9"}

DigitVal(c) ==
    CASE c = "0" -> 0 [] c = "1" -> 1 [] c = "2" -> 2 [] c = "3" -> 3
      [] c = "4" -> 4 [] c = "5" -> 5 [] c = "6" -> 6 [] c = "7" -> 7
      [] c = "8" -> 8 [] c = "9" -> 9

DigitChar(d) ==
    CASE d = 0 -> "0" [] d = 1 -> "1" [] d = 2 -> "2" [] d = 3 -> "3"
      [] d = 4 -> "4" [] d = 5 -> "5" [] d = 6 -> "6" [] d = 7 -> "7"
      [] d = 8 -> "8" [] d = 9 -> "9"

RECURSIVE DigitsValue(_, _)
DigitsValue(s, acc) ==
    IF s = <<>> THEN acc ELSE DigitsValue(Tail(s), 10 * acc + DigitVal(s[1]))

\* int(s) for an already stripped, non-empty s: an optional sign and then
\* one or more digits; anything else raises ValueError (ok = FALSE).
ParseInt(s) ==
    LET signed == s # <<>> /\ s[1] \in {"+", "-"}
        digits == IF signed THEN Tail(s) ELSE s
        valid  == digits # <<>> /\ \A i \in 1..Len(digits) : digits[i] \in Digits
        mag    == DigitsValue(digits, 0)
    IN  IF ~valid THEN [ok |-> FALSE, val |-> 0]
        ELSE [ok |-> TRUE, val |-> IF signed /\ s[1] = "-" THEN 0 - mag ELSE mag]

RECURSIVE NatText(_)
NatText(n) ==
    IF n < 10 THEN <<DigitChar(n)>> ELSE NatText(n \div 10) \o <<DigitChar(n % 10)>>

\* str(n) as used by the f-strings
IntText(n) == IF n < 0 THEN <<"-">> \o NatText(0 - n) ELSE NatText(n)

----------------------------------------------------------------------------
(* Directories: functions from file name to text *)

EmptyDir == [n \in {} |-> <<>>]

WriteFile(dir, name, text) ==
    [n \in DOMAIN dir \cup {name} |-> IF n = name THEN text ELSE dir[n]]

----------------------------------------------------------------------------
(* github_actions_workflow: the fixed workflow text, line by line.  The    *)
(* text ends with a newline after its last line.                           *)

github_actions_workflow ==
    << "name: Deploy Datasette to Dokploy",
       "",
       "on:",
       "  push:",
       "    branches: [main]",
       "  workflow_dispatch:",
       "",
       "permissions:",
       "  contents: read",
       "  packages: write",
       "",
       "jobs:",
       "  deploy:",
       "    runs-on: ubuntu-latest",
       "    steps:",
       "      - name: Checkout",
       "        uses: actions/checkout@v4",
       "",
       "      - name: Log in to GHCR",
       "        uses: docker/login-action@v3",
       "        with:",
       "          registry: ghcr.io",
       "          username: ${{ github.actor }}",
       "          password: ${{ secrets.GITHUB_TOKEN }}",
       "",
       "      - name: Build and push image",
       "        uses: docker/build-push-action@v6",
       "        with:",
       "          context: .",
       "          push: true",
       "          tags: ghcr.io/${{ github.repository }}:latest",
       "",
       "      - name: Trigger Dokploy deployment",
       "        uses: benbristow/dokploy-deploy-action@0.0.1",
       "        with:",
       "          auth_token: ${{ secrets.DOKPLOY_AUTH_TOKEN }}",
       "          application_id: ${{ secrets.DOKPLOY_APPLICATION_ID }}",
       "          dokploy_url: ${{ secrets.DOKPLOY_URL }}",
       "\n" >>

\* text.rstrip() on a text of lines: trailing newline atoms and blank lines go
RStripLines(lines) == RStripChars(lines, {"", "\n"})

----------------------------------------------------------------------------
(* _curl_check: run curl, read status and body, raise on failure *)

\* The argument vector built at lines 204-218
CurlArgv(url, method, headers, data) ==
    << <<"curl">>, <<"-sS">>, <<"-X">>, method, url,
       <<"-o">>, <<"body_file.name">>, <<"-w">>, <<"%{http_code}">> >>
    \o Concat([i \in 1..Len(headers) |-> << <<"-H">>, headers[i] >>])
    \o (IF data.some THEN << <<"-d">>, data.val >> ELSE <<>>)

\* int(stdout) if stdout else 0, with ValueError giving 0
CurlStatus(stdout) ==
    IF stdout = <<>> THEN 0
    ELSE IF ParseInt(stdout).ok THEN ParseInt(stdout).val ELSE 0

_curl_check_inclusive300(url, method, headers, data, result) ==
    LET stdout == Strip(result.stdout)
        stderr == Strip(result.stderr)
        status == CurlStatus(stdout)
        body   == result.body
        argv   == CurlArgv(url, method, headers, data)
    IN  IF result.returncode # 0
        THEN [argv |-> argv, ok |-> FALSE, body |-> <<>>,
              msg |-> IF stderr # <<>> THEN stderr
                      ELSE <<"curl failed with code ">> \o IntText(result.returncode)]
        ELSE IF status < 200 \/ status > 300
        THEN [argv |-> argv, ok |-> FALSE, body |-> <<>>,
              msg |-> <<"HTTP ">> \o IntText(status) \o <<": ">>
                      \o (IF Strip(body) # <<>> THEN Strip(body)
                          ELSE <<"(empty response body)">>)]
        ELSE [argv |-> argv, ok |-> TRUE, body |-> body, msg |-> <<>>]

\* result is what run() gave back: [returncode, stdout, stderr, body], body
\* being the text curl left in the body file.
_curl_check(url, method, headers, data, result) ==
    LET stdout == Strip(result.stdout)
        stderr == Strip(result.stderr)
        status == CurlStatus(stdout)
        body   == result.body
        argv   == CurlArgv(url, method, headers, data)
    IN  IF result.returncode # 0
        THEN [argv |-> argv, ok |-> FALSE, body |-> <<>>,
              msg |-> IF stderr # <<>> THEN stderr
                      ELSE <<"curl failed with code ">> \o IntText(result.returncode)]
        ELSE IF status < 200 \/ status >= 300
        THEN [argv |-> argv, ok |-> FALSE, body |-> <<>>,
              msg |-> <<"HTTP ">> \o IntText(status) \o <<": ">>
                      \o (IF Strip(body) # <<>> THEN Strip(body)
                          ELSE <<"(empty response body)">>)]
        ELSE [argv |-> argv, ok |-> TRUE, body |-> body, msg |-> <<>>]

----------------------------------------------------------------------------
(* _looks_like_datasette_requirement *)

Datasette == <<"d", "a", "t", "a", "s", "e", "t", "t", "e">>

_looks_like_datasette_requirement_prefixOnly(req) ==
    LET r == Lower(Strip(IF Truthy(req) THEN req.val ELSE <<>>))
    IN  StartsWith(r, Datasette)

\* req is an optional text: (req or "") turns None into "".
_looks_like_datasette_requirement(req) ==
    LET r == Lower(Strip(IF Truthy(req) THEN req.val ELSE <<>>))
        next_ch == SubSeq(r, Len(Datasette) + 1, Len(Datasette) + 1)
    IN  IF ~StartsWith(r, Datasette) THEN FALSE
        ELSE IF r = Datasette THEN TRUE
        ELSE next_ch \in { <<"=">>, <<"<">>, <<">">>, <<"!">>, <<"~">>, <<"[">>, <<" ">> }

----------------------------------------------------------------------------
(* json.dumps of the deploy payload *)

\* JSON string escaping of the characters the model uses
JsonEscapeChar(c) ==
    CASE c = "\"" -> <<"\\", "\"">>
      [] c = "\\" -> <<"\\", "\\">>
      [] c = "\n" -> <<"\\", "n">>
      [] OTHER -> <<c>>

JsonEscape(s) == Concat([i \in 1..Len(s) |-> JsonEscapeChar(s[i])])

\* json.dumps({"applicationId": application_id})
DeployPayload(application_id) ==
    <<"{\"applicationId\": ", "\"">> \o JsonEscape(application_id) \o <<"\"", "}">>

----------------------------------------------------------------------------
(* The two deployment triggers *)

_trigger_dokploy_noRstrip(dokploy_url, application_id, api_key, result) ==
    LET url == dokploy_url \o <<"/api/application.deploy">>
        payload == DeployPayload(application_id)
    IN  _curl_check(url, <<"POST">>,
                    << <<"x-api-key: ">> \o api_key,
                       <<"accept: application/json">>,
                       <<"content-type: application/json">> >>,
                    Some(payload), result)

_trigger_dokploy(dokploy_url, application_id, api_key, result) ==
    LET url == RStripChars(dokploy_url, {"/"}) \o <<"/api/application.deploy">>
        payload == DeployPayload(application_id)
    IN  _curl_check(url, <<"POST">>,
                    << <<"x-api-key: ">> \o api_key,
                       <<"accept: application/json">>,
                       <<"content-type: application/json">> >>,
                    Some(payload), result)

_trigger_webhook_tokenNotNone(deploy_url, token, result) ==
    LET headers == IF token.some
                   THEN << <<"Authorization: Bearer ">> \o token.val >>
                   ELSE <<>>
    IN  _curl_check(deploy_url, <<"POST">>, headers, None, result)

_trigger_webhook(deploy_url, token, result) ==
    LET headers == IF Truthy(token)
                   THEN << <<"Authorization: Bearer ">> \o token.val >>
                   ELSE <<>>
    IN  _curl_check(deploy_url, <<"POST">>, headers, None, result)

----------------------------------------------------------------------------
(* Requirement resolution inside _publish (lines 363-382) *)

\* next((req for req in install if _looks_like_datasette_requirement(req)), None)
datasette_from_install(install) ==
    LET hits == {i \in 1..Len(install) : _looks_like_datasette_requirement(Some(install[i]))}
    IN  IF hits = {} THEN None
        ELSE Some(install[CHOOSE i \in hits : \A j \in hits : i <= j])

BranchInstallConflict_firstEntryOnly(install, branch) ==
    /\ install # <<>>
    /\ _looks_like_datasette_requirement(Some(install[1]))
    /\ Truthy(branch)

\* if datasette_from_install and branch: raise ClickException
BranchInstallConflict(install, branch) ==
    Truthy(datasette_from_install(install)) /\ Truthy(branch)

datasette_install(install, branch) ==
    LET explicit == datasette_from_install(install)
    IN  IF Truthy(branch) /\ ~Truthy(explicit)
        THEN <<"https://github.com/simonw/datasette/archive/">> \o branch.val \o <<".zip">>
        ELSE IF Truthy(explicit) THEN explicit.val
        ELSE Datasette

NotDatasette(req) == ~_looks_like_datasette_requirement(Some(req))

remaining_install_dropFirstOnly(install) ==
    LET hits == {i \in 1..Len(install) : _looks_like_datasette_requirement(Some(install[i]))}
    IN  IF hits = {} THEN install
        ELSE LET first == CHOOSE i \in hits : \A j \in hits : i <= j
             IN  SubSeq(install, 1, first - 1) \o SubSeq(install, first + 1, Len(install))

\* install = [req for req in install if not _looks_like_datasette_requirement(req)]
remaining_install(install) ==
    IF Truthy(datasette_from_install(install))
    THEN SelectSeq(install, NotDatasette)
    ELSE install

\* "\n".join([datasette_install, "pysqlite3-binary", "uvicorn"] + install)
requirements_txt(install, branch) ==
    Join(<< datasette_install(install, branch), <<"pysqlite3-binary">>, <<"uvicorn">> >>
         \o remaining_install(install), <<"\n">>)

----------------------------------------------------------------------------
(* The inputs of a run *)

UrlChars == {"h", "/"}
IdChars == {"a", "\"", "\\"}

OptionalTexts(S) == {None} \cup {Some(t) : t \in S}

Images == OptionalTexts({<<>>, <<"ghcr.io/me/repo:latest">>})
GenerateDirs == OptionalTexts({<<>>, <<"app">>})
Branches == OptionalTexts({<<>>, <<"main">>})
DokployUrls == OptionalTexts(SeqsUpTo(UrlChars, MaxUrlLen))
ApplicationIds == OptionalTexts(SeqsUpTo(IdChars, MaxIdLen))
ApiKeys == OptionalTexts({<<>>, <<"k">>})
DeployUrls == OptionalTexts({<<>>, <<"https://dokploy.example.com/hook/deploy">>})
Tokens == OptionalTexts({<<>>, <<"tok">>})

\* "datasette==1", "datasette-foo", " Datasette>1", "x", "" and "datasette"
InstallReqs ==
    { Datasette,
      Datasette \o <<"=", "=", "1">>,
      Datasette \o <<"-", "f", "o", "o">>,
      <<" ", "D">> \o Tail(Datasette) \o <<">", "1">>,
      <<"x">>,
      <<>> }

\* Runs that sweep the trigger options, with a short install list
TriggerSweep ==
    [ files : {<<"test.db">>},
      branch : {None},
      install : {<<>>, << Datasette \o <<"=", "=", "1">> >>},
      image : Images,
      generate_dir : {None, Some(<<"app">>)},
      generate_github_actions : BOOLEAN,
      dokploy_url : DokployUrls,
      application_id : ApplicationIds,
      api_key : ApiKeys,
      deploy_url : DeployUrls,
      token : Tokens ]

TriggerPresets ==
    { [dokploy_url |-> None, application_id |-> None, api_key |-> None,
       deploy_url |-> None, token |-> None],
      [dokploy_url |-> Some(<<"h", "/">>), application_id |-> Some(<<"a">>),
       api_key |-> Some(<<"k">>),
       deploy_url |-> Some(<<"https://dokploy.example.com/hook/deploy">>),
       token |-> Some(<<"tok">>)],
      [dokploy_url |-> None, application_id |-> None, api_key |-> None,
       deploy_url |-> Some(<<"https://dokploy.example.com/hook/deploy">>),
       token |-> None] }

\* Runs that sweep branch and install list, with a few trigger settings
InstallSweep ==
    { [ files |-> f, branch |-> b, install |-> i, image |-> im,
        generate_dir |-> g, generate_github_actions |-> w,
        dokploy_url |-> t.dokploy_url, application_id |-> t.application_id,
        api_key |-> t.api_key, deploy_url |-> t.deploy_url, token |-> t.token ] :
      f \in {<<>>, <<"test.db">>}, b \in Branches,
      i \in SeqsUpTo(InstallReqs, MaxInstall), im \in Images,
      g \in GenerateDirs, w \in BOOLEAN, t \in TriggerPresets }

PublishRequests == TriggerSweep \cup InstallSweep

\* What curl can come back with during a publish run
PublishCurlResults ==
    { [returncode |-> 0, stdout |-> <<"2", "0", "0">>, stderr |-> <<>>, body |-> <<"o", "k">>],
      [returncode |-> 0, stdout |-> <<"4", "0", "1">>, stderr |-> <<>>, body |-> <<"n", "o", "\n">>],
      [returncode |-> 0, stdout |-> <<"5", "0", "0">>, stderr |-> <<>>, body |-> <<>>],
      [returncode |-> 6, stdout |-> <<"0", "0", "0">>, stderr |-> <<"e", "\n">>, body |-> <<>>] }

NoCurl == [returncode |-> 0, stdout |-> <<>>, stderr |-> <<>>, body |-> <<>>]
NoResult == [argv |-> <<>>, ok |-> FALSE, body |-> <<>>, msg |-> <<>>]
NoError == [kind |-> "none", msg |-> <<>>]

----------------------------------------------------------------------------
(* _publish, step by step *)

Init ==
    /\ opts \in PublishRequests
    /\ pc = "start"
    /\ bundle = EmptyDir
    /\ generated = EmptyDir
    /\ calls = <<>>
    /\ out = <<>>
    /\ exit_code = 0
    /\ err = NoError
    /\ curl_in = NoCurl
    /\ curl_res = NoResult
    /\ req_in = None
    /\ req_res = FALSE

\* An exception leaves _publish: the temporary directory is cleaned up and
\* the command exits with status 1.
Raise(kind, msg) ==
    /\ pc' = "failed"
    /\ exit_code' = 1
    /\ err' = [kind |-> kind, msg |-> msg]
    /\ bundle' = EmptyDir

Return ==
    /\ pc' = "done"
    /\ exit_code' = 0
    /\ bundle' = EmptyDir

GenerateWorkflowRequested_afterGenerateDir(o) ==
    o.generate_github_actions /\ ~Truthy(o.generate_dir)

\* Lines 312-314
GenerateWorkflowRequested(o) == o.generate_github_actions

GenerateGithubActions ==
    /\ pc = "start"
    /\ GenerateWorkflowRequested(opts)
    /\ out' = Append(out, [stream |-> "stdout", text |-> RStripLines(github_actions_workflow)])
    /\ pc' = "done"
    /\ exit_code' = 0
    /\ UNCHANGED <<req_in, req_res, opts, bundle, generated, calls, err, curl_in, curl_res>>

\* temporary_docker_directory: the database files and datasette's own
\* Dockerfile, staged in a fresh temporary directory
StagedBundle(files) ==
    [n \in Range(files) \cup {"Dockerfile"} |->
        IF n \in Range(files) THEN <<"data">> ELSE <<"datasette Dockerfile">>]

\* Lines 342-361: Dockerfile and index.py written into the bundle
RenderedBundle(o) ==
    WriteFile(WriteFile(StagedBundle(o.files), "Dockerfile", <<"DOCKERFILE">>),
              "index.py", <<"INDEX_PY database_files=">> \o o.files)

\* Lines 316-382
Assemble ==
    /\ pc = "start"
    /\ ~GenerateWorkflowRequested(opts)
    /\ IF BranchInstallConflict(opts.install, opts.branch)
       THEN Raise("ClickException",
                  <<"Cannot use ", "--branch", " and ", "--install datasette...",
                    " at the same time">>)
       ELSE /\ bundle' = WriteFile(RenderedBundle(opts), "requirements.txt",
                                   requirements_txt(opts.install, opts.branch))
            /\ pc' = "assembled"
            /\ UNCHANGED <<exit_code, err>>
    /\ UNCHANGED <<req_in, req_res, opts, generated, calls, out, curl_in, curl_res>>

GenerateOnlyRequested_unlessImage(o) == Truthy(o.generate_dir) /\ ~Truthy(o.image)

\* Line 384
GenerateOnlyRequested(o) == Truthy(o.generate_dir)

\* Lines 309-310: str(pathlib.Path(generate_dir).resolve())
ResolvedGenerateDir(o) == <<"/cwd/">> \o o.generate_dir.val

\* Lines 384-394: shutil.copytree raises FileExistsError when the target exists
GenerateOnly ==
    /\ pc = "assembled"
    /\ GenerateOnlyRequested(opts)
    /\ \E target_exists \in BOOLEAN :
        IF target_exists
        THEN /\ Raise("FileExistsError", ResolvedGenerateDir(opts))
             /\ UNCHANGED <<generated, out>>
        ELSE /\ generated' = bundle
             /\ out' = out \o
                  << [stream |-> "stderr", text |-> <<"Your generated application files have been written to:">>],
                     [stream |-> "stderr", text |-> <<"    ">> \o ResolvedGenerateDir(opts) \o <<"\n">>],
                     [stream |-> "stderr", text |-> <<"To deploy from GitHub Actions:">>],
                     [stream |-> "stderr", text |-> <<"1. Commit and push these files">>],
                     [stream |-> "stderr", text |-> <<"2. Run: datasette publish dokploy --generate-github-actions > .github/workflows/deploy-datasette.yml">>] >>
             /\ Return
             /\ UNCHANGED err
    /\ UNCHANGED <<req_in, req_res, opts, calls, curl_in, curl_res>>

ImageMissing_onlyNone(o) == ~o.image.some

\* Line 396
ImageMissing(o) == ~Truthy(o.image)

\* Lines 396-399
RequireImage ==
    /\ pc = "assembled"
    /\ ~GenerateOnlyRequested(opts)
    /\ ImageMissing(opts)
    /\ Raise("ClickException",
             <<"--image", " is required for direct deployment. Use ",
               "--generate-dir", " to export files instead.">>)
    /\ UNCHANGED <<req_in, req_res, opts, generated, calls, out, curl_in, curl_res>>

\* Lines 401-404: fail_if_publish_binary_not_installed for docker, then curl
CheckBinaries ==
    /\ pc = "assembled"
    /\ ~GenerateOnlyRequested(opts)
    /\ ~ImageMissing(opts)
    /\ \E docker_found, curl_found \in BOOLEAN :
        IF ~docker_found
        THEN Raise("SystemExit",
                   <<"Publishing to Docker requires docker to be installed and configured">>)
        ELSE IF ~curl_found
        THEN Raise("SystemExit",
                   <<"Publishing to curl requires curl to be installed and configured">>)
        ELSE /\ pc' = "build"
             /\ UNCHANGED <<bundle, exit_code, err>>
    /\ UNCHANGED <<req_in, req_res, opts, generated, calls, out, curl_in, curl_res>>

DockerExitCodes == {0, 1}

\* str(CalledProcessError)
CalledProcessErrorText(argv, returncode) ==
    <<"Command ">> \o Join(argv, <<" ">>) \o <<" returned non-zero exit status ">>
    \o IntText(returncode) \o <<".">>

RunChecked_ignoreExit(argv, via, next_pc) ==
    \E returncode \in DockerExitCodes :
        /\ calls' = Append(calls, [argv |-> argv, returncode |-> returncode, via |-> via])
        /\ pc' = next_pc
        /\ UNCHANGED <<bundle, exit_code, err>>

\* run(argv, check=True) inside the try block of lines 406-410
RunChecked(argv, via, next_pc) ==
    \E returncode \in DockerExitCodes :
        /\ calls' = Append(calls, [argv |-> argv, returncode |-> returncode, via |-> via])
        /\ IF returncode # 0
           THEN Raise("ClickException", CalledProcessErrorText(argv, returncode))
           ELSE /\ pc' = next_pc
                /\ UNCHANGED <<bundle, exit_code, err>>

\* Line 407
DockerBuildArgv(image) == << <<"docker">>, <<"build">>, <<"-t">>, image, <<".">> >>

DockerBuild ==
    /\ pc = "build"
    /\ RunChecked(DockerBuildArgv(opts.image.val), "docker build", "push")
    /\ UNCHANGED <<req_in, req_res, opts, generated, out, curl_in, curl_res>>

\* Line 408
DockerPushArgv(image) == << <<"docker">>, <<"push">>, image >>

DockerPush ==
    /\ pc = "push"
    /\ RunChecked(DockerPushArgv(opts.image.val), "docker push", "trigger")
    /\ UNCHANGED <<req_in, req_res, opts, generated, out, curl_in, curl_res>>

UseApiTrigger_anyOption(o) ==
    Truthy(o.dokploy_url) \/ Truthy(o.application_id) \/ Truthy(o.api_key)

\* Line 412
UseApiTrigger(o) ==
    Truthy(o.dokploy_url) /\ Truthy(o.application_id) /\ Truthy(o.api_key)

\* Line 414
UseWebhookTrigger(o) == ~UseApiTrigger(o) /\ Truthy(o.deploy_url)

\* The end of a trigger: _curl_check returned or raised
AfterCurl(via, result, res) ==
    /\ curl_in' = result
    /\ curl_res' = res
    /\ calls' = Append(calls, [argv |-> res.argv, returncode |-> result.returncode, via |-> via])
    /\ IF res.ok
       THEN /\ Return
            /\ UNCHANGED err
       ELSE Raise("ClickException", res.msg)

\* Lines 412-413
TriggerDokploy ==
    /\ pc = "trigger"
    /\ UseApiTrigger(opts)
    /\ \E result \in PublishCurlResults :
        AfterCurl("_trigger_dokploy", result,
                  _trigger_dokploy(opts.dokploy_url.val, opts.application_id.val,
                                   opts.api_key.val, result))
    /\ UNCHANGED <<req_in, req_res, opts, generated, out>>

\* Lines 414-415
TriggerWebhook ==
    /\ pc = "trigger"
    /\ UseWebhookTrigger(opts)
    /\ \E result \in PublishCurlResults :
        AfterCurl("_trigger_webhook", result,
                  _trigger_webhook(opts.deploy_url.val, opts.token, result))
    /\ UNCHANGED <<req_in, req_res, opts, generated, out>>

\* Neither branch of lines 412-415 taken: _publish returns
NoTrigger ==
    /\ pc = "trigger"
    /\ ~UseApiTrigger(opts)
    /\ ~UseWebhookTrigger(opts)
    /\ Return
    /\ UNCHANGED <<req_in, req_res, opts, generated, calls, out, err, curl_in, curl_res>>

Next ==
    \/ GenerateGithubActions
    \/ Assemble
    \/ GenerateOnly
    \/ RequireImage
    \/ CheckBinaries
    \/ DockerBuild
    \/ DockerPush
    \/ TriggerDokploy
    \/ TriggerWebhook
    \/ NoTrigger

Spec == Init /\ [][Next]_vars

----------------------------------------------------------------------------
(* _curl_check on its own: every outcome of the curl process *)

StdoutChars == {"0", "1", "2", "3", "9", " ", "-"}
StderrChars == {"e", "\n"}
BodyChars == {"b", " "}

CurlResults ==
    [ returncode : {0, 6},
      stdout : SeqsUpTo(StdoutChars, MaxStdoutLen),
      stderr : SeqsUpTo(StderrChars, MaxBodyLen),
      body : SeqsUpTo(BodyChars, MaxBodyLen) ]

InitCurl ==
    /\ opts \in {o \in TriggerPresets : ~Truthy(o.dokploy_url) /\ Truthy(o.deploy_url)}
    /\ pc = "curl_check"
    /\ bundle = EmptyDir
    /\ generated = EmptyDir
    /\ calls = <<>>
    /\ out = <<>>
    /\ exit_code = 0
    /\ err = NoError
    /\ curl_in \in CurlResults
    /\ curl_res = NoResult
    /\ req_in = None
    /\ req_res = FALSE

CurlCheck ==
    /\ pc = "curl_check"
    /\ curl_res' = _curl_check(opts.deploy_url.val, <<"POST">>, <<>>, None, curl_in)
    /\ pc' = "curl_done"
    /\ UNCHANGED <<req_in, req_res, opts, bundle, generated, calls, out, exit_code, err, curl_in>>

NextCurl == CurlCheck

SpecCurl == InitCurl /\ [][NextCurl]_vars

----------------------------------------------------------------------------
(* Vocabulary of the properties *)

Ended == pc \in {"done", "failed"}

IsCurl(c) == c.argv[1] = <<"curl">>
IsDocker(c) == c.argv[1] = <<"docker">>

CurlCalls == SelectSeq(calls, IsCurl)

\* docker build and docker push have both run and exited zero
BuiltAndPushed ==
    /\ Len(calls) >= 2
    /\ calls[1].argv[2] = <<"build">> /\ calls[1].returncode = 0
    /\ calls[2].argv[2] = <<"push">> /\ calls[2].returncode = 0

\* The trigger decision of the run has been taken
PastTrigger == BuiltAndPushed /\ pc # "trigger"

\* An option counts as supplied when it was given a non-empty value
Supplied(x) == x.some /\ Len(x.val) > 0

AllApiOptions ==
    Supplied(opts.dokploy_url) /\ Supplied(opts.application_id) /\ Supplied(opts.api_key)

DirectDeployment == ~Supplied(opts.generate_dir) /\ ~opts.generate_github_actions

----------------------------------------------------------------------------
(* C1 *)

\* C1: at most one deployment trigger fires in a run; after a successful
\* build and push the API trigger is the one called when dokploy-url,
\* application-id and api-key are all supplied, else the webhook trigger when
\* deploy-url is supplied, else none is called and the run ends successfully.
C1_TriggerSelection ==
    /\ Len(CurlCalls) <= 1
    /\ PastTrigger =>
        IF AllApiOptions
        THEN Len(CurlCalls) = 1 /\ CurlCalls[1].via = "_trigger_dokploy"
        ELSE IF Supplied(opts.deploy_url)
        THEN Len(CurlCalls) = 1 /\ CurlCalls[1].via = "_trigger_webhook"
        ELSE CurlCalls = <<>> /\ pc = "done" /\ exit_code = 0

\* All three API options and a webhook URL together: only the API trigger ran
C1_Witness ==
    /\ PastTrigger
    /\ AllApiOptions
    /\ Supplied(opts.deploy_url)
    /\ Len(CurlCalls) = 1
    /\ CurlCalls[1].via = "_trigger_dokploy"

----------------------------------------------------------------------------
(* C2 *)

\* C2: with a generate-only directory requested and generate-workflow mode
\* not, a run that succeeds has invoked neither docker nor curl, exits zero
\* and leaves index.py, Dockerfile, requirements.txt and the supplied
\* database files in the generate directory, whatever the image, API and
\* webhook options are.
C2_GenerateOnly ==
    (Supplied(opts.generate_dir) /\ ~opts.generate_github_actions /\ pc = "done") =>
        /\ calls = <<>>
        /\ exit_code = 0
        /\ {"index.py", "Dockerfile", "requirements.txt"} \cup Range(opts.files)
              \subseteq DOMAIN generated

\* A generate-only run with image, API and webhook options all supplied
C2_Witness ==
    /\ Supplied(opts.generate_dir) /\ ~opts.generate_github_actions
    /\ Supplied(opts.image) /\ AllApiOptions /\ Supplied(opts.deploy_url)
    /\ pc = "done"
    /\ "test.db" \in DOMAIN generated

----------------------------------------------------------------------------
(* C3 *)

MentionsImageAndGenerateDir(msg) ==
    /\ \E i \in 1..Len(msg) : msg[i] = "--image" /\ i < Len(msg)
                              /\ msg[i + 1] = " is required for direct deployment. Use "
    /\ "--generate-dir" \in Range(msg)

\* The install entries of the model that name the framework itself
FrameworkReqs ==
    { Datasette,
      Datasette \o <<"=", "=", "1">>,
      <<" ", "D">> \o Tail(Datasette) \o <<">", "1">> }

NamesFramework(req) == req \in FrameworkReqs

BranchAndFrameworkInstall ==
    /\ Supplied(opts.branch)
    /\ \E i \in 1..Len(opts.install) : NamesFramework(opts.install[i])

\* C3 as stated: a direct deployment with no image name, or an empty one,
\* fails with a usage error that says --image is required and names
\* --generate-dir, exits non-zero and attempts no build, push or trigger.
C3_AsStated ==
    (DirectDeployment /\ ~Supplied(opts.image)) =>
        /\ calls = <<>>
        /\ Ended =>
            /\ pc = "failed" /\ exit_code # 0
            /\ err.kind = "ClickException"
            /\ MentionsImageAndGenerateDir(err.msg)

\* C3 (amended): a direct deployment with no image name, or an empty one,
\* attempts no build, push or trigger and ends in a usage error with a
\* non-zero exit; the message says --image is required and names
\* --generate-dir unless a branch override was given together with an install
\* requirement naming the framework, in which case the usage error about that
\* conflict is raised first.
C3_ImageRequired ==
    (DirectDeployment /\ ~Supplied(opts.image)) =>
        /\ calls = <<>>
        /\ Ended =>
            /\ pc = "failed" /\ exit_code # 0
            /\ err.kind = "ClickException"
            /\ IF BranchAndFrameworkInstall
               THEN "--branch" \in Range(err.msg) /\ ~MentionsImageAndGenerateDir(err.msg)
               ELSE MentionsImageAndGenerateDir(err.msg)

\* An empty image name with API and webhook options supplied was refused
C3_Witness ==
    /\ DirectDeployment
    /\ opts.image = Some(<<>>)
    /\ AllApiOptions /\ Supplied(opts.deploy_url)
    /\ pc = "failed"
    /\ MentionsImageAndGenerateDir(err.msg)

----------------------------------------------------------------------------
(* C4 *)

\* C4: a branch override together with an install requirement that names
\* datasette ends in a usage error with a non-zero exit and no build, push or
\* trigger call, in every mode that reaches bundle assembly (generate-only
\* mode included); nothing is written to the generate directory.
C4_BranchInstallConflict ==
    (BranchAndFrameworkInstall /\ ~opts.generate_github_actions) =>
        /\ calls = <<>>
        /\ generated = EmptyDir
        /\ pc \in {"start", "failed"}
        /\ pc = "failed" => (exit_code # 0 /\ err.kind = "ClickException"
                             /\ "--branch" \in Range(err.msg))

\* The conflict was refused in generate-only mode with an image supplied
C4_Witness ==
    /\ BranchAndFrameworkInstall
    /\ Supplied(opts.generate_dir) /\ ~opts.generate_github_actions
    /\ Supplied(opts.image)
    /\ pc = "failed"
    /\ err.kind = "ClickException"

----------------------------------------------------------------------------
(* C5 *)

\* Reading a JSON string body back: escapes undone, a bare quote is invalid
RECURSIVE JsonUnescape(_)
JsonUnescape(s) ==
    IF s = <<>> THEN <<>>
    ELSE IF s[1] = "\"" THEN <<"INVALID">>
    ELSE IF s[1] = "\\"
    THEN IF Len(s) < 2 THEN <<"INVALID">>
         ELSE (CASE s[2] = "\"" -> <<"\"">>
                 [] s[2] = "\\" -> <<"\\">>
                 [] s[2] = "n" -> <<"\n">>
                 [] OTHER -> <<"INVALID">>) \o JsonUnescape(SubSeq(s, 3, Len(s)))
    ELSE <<s[1]>> \o JsonUnescape(Tail(s))

\* text is the JSON object {"applicationId": "<id>"}
IsDeployJson(text, id) ==
    /\ Len(text) >= 4
    /\ text[1] = "{\"applicationId\": " /\ text[2] = "\""
    /\ text[Len(text) - 1] = "\"" /\ text[Len(text)] = "}"
    /\ JsonUnescape(SubSeq(text, 3, Len(text) - 2)) = id

\* url is base with every trailing slash removed, followed by the deploy path
IsDeployUrl(url, base) ==
    /\ url # <<>>
    /\ url[Len(url)] = "/api/application.deploy"
    /\ LET stem == SubSeq(url, 1, Len(url) - 1)
       IN  /\ Len(stem) <= Len(base)
           /\ stem = SubSeq(base, 1, Len(stem))
           /\ \A i \in (Len(stem) + 1)..Len(base) : base[i] = "/"
           /\ stem # <<>> => stem[Len(stem)] # "/"

\* C5: with dokploy-url, application-id and api-key all set and build and
\* push successful, exactly one HTTP call is made, after the push: a POST to
\* the dokploy URL without its trailing slash plus /api/application.deploy,
\* with the headers x-api-key: <apiKey>, accept: application/json and
\* content-type: application/json and the JSON body
\* {"applicationId": "<applicationId>"}.
C5_ApiTriggerCall ==
    (AllApiOptions /\ PastTrigger) =>
        /\ Len(CurlCalls) = 1
        /\ Len(calls) = 3 /\ IsCurl(calls[3])
        /\ LET argv == calls[3].argv
           IN  /\ Len(argv) = 17
               /\ SubSeq(argv, 1, 4) = << <<"curl">>, <<"-sS">>, <<"-X">>, <<"POST">> >>
               /\ IsDeployUrl(argv[5], opts.dokploy_url.val)
               /\ SubSeq(argv, 10, 16) =
                     << <<"-H">>, <<"x-api-key: ">> \o opts.api_key.val,
                        <<"-H">>, <<"accept: application/json">>,
                        <<"-H">>, <<"content-type: application/json">>,
                        <<"-d">> >>
               /\ IsDeployJson(argv[17], opts.application_id.val)

\* The API trigger ran for a URL ending in a slash and an id holding a quote
C5_Witness ==
    /\ AllApiOptions /\ PastTrigger
    /\ opts.dokploy_url.val = <<"h", "/">>
    /\ opts.application_id.val = <<"\"">>
    /\ Len(calls) = 3 /\ IsCurl(calls[3])
    /\ pc = "done"

----------------------------------------------------------------------------
(* C6 *)

WebhookSelected == ~AllApiOptions /\ Supplied(opts.deploy_url)

\* C6: when the webhook trigger is selected, exactly one HTTP call is made,
\* after the push: a POST to the webhook URL unchanged, with no body, and
\* with the single header Authorization: Bearer <token> exactly when a
\* non-empty token was supplied, no header otherwise.
C6_WebhookTriggerCall ==
    (WebhookSelected /\ PastTrigger) =>
        /\ Len(CurlCalls) = 1
        /\ Len(calls) = 3 /\ IsCurl(calls[3])
        /\ LET argv == calls[3].argv
               fixed == << <<"curl">>, <<"-sS">>, <<"-X">>, <<"POST">>, opts.deploy_url.val,
                           <<"-o">>, <<"body_file.name">>, <<"-w">>, <<"%{http_code}">> >>
           IN  /\ <<"-d">> \notin Range(argv)
               /\ IF Supplied(opts.token)
                  THEN argv = fixed \o << <<"-H">>, <<"Authorization: Bearer ">> \o opts.token.val >>
                  ELSE argv = fixed

\* The webhook trigger ran with an empty token and sent no header
C6_Witness ==
    /\ WebhookSelected /\ PastTrigger
    /\ opts.token = Some(<<>>)
    /\ Len(calls) = 3 /\ IsCurl(calls[3])
    /\ <<"-H">> \notin Range(calls[3].argv)

----------------------------------------------------------------------------
(* C7 *)

CurlDone == pc = "curl_done"

\* The status _curl_check reads from what curl printed
ParsedStatus == CurlStatus(Strip(curl_in.stdout))

StatusIs2xx == ParsedStatus >= 200 /\ ParsedStatus < 300

\* Returns the body exactly when curl exited zero with a status in [200,300)
ReturnsBodyIff2xx ==
    /\ curl_res.ok <=> (curl_in.returncode = 0 /\ StatusIs2xx)
    /\ curl_res.ok => curl_res.body = curl_in.body

\* C7 as stated: the body is returned iff curl exited zero with a status in
\* [200,300); on a non-zero exit the error text is the diagnostic stream; on
\* any other status the error message is the response body, or a placeholder
\* when the body is empty.
C7_AsStated ==
    CurlDone =>
        /\ ReturnsBodyIff2xx
        /\ curl_in.returncode # 0 => curl_res.msg = curl_in.stderr
        /\ (curl_in.returncode = 0 /\ ~StatusIs2xx) =>
              curl_res.msg = IF curl_in.body = <<>> THEN <<"(empty response body)">>
                             ELSE curl_in.body

\* C7 (amended): the body is returned iff curl exited zero with a status in
\* [200,300).  On a non-zero exit the error text is the diagnostic stream
\* with surrounding whitespace trimmed, or "curl failed with code <exit
\* code>" when that is empty.  On any other status (a missing or unparsable
\* one counts as 0) the message is "HTTP <status>: " followed by the trimmed
\* response body, or by "(empty response body)" when the trimmed body is
\* empty.
C7_CurlCheckOutcome ==
    CurlDone =>
        /\ ReturnsBodyIff2xx
        /\ curl_in.returncode # 0 =>
              curl_res.msg = IF Strip(curl_in.stderr) # <<>> THEN Strip(curl_in.stderr)
                             ELSE <<"curl failed with code ">> \o IntText(curl_in.returncode)
        /\ (curl_in.returncode = 0 /\ ~StatusIs2xx) =>
              curl_res.msg = <<"HTTP ">> \o IntText(ParsedStatus) \o <<": ">>
                             \o (IF Strip(curl_in.body) # <<>> THEN Strip(curl_in.body)
                                 ELSE <<"(empty response body)">>)

\* curl exited zero with status 300 and a whitespace-only body: refused with
\* the placeholder
C7_Witness ==
    /\ CurlDone
    /\ curl_in.returncode = 0
    /\ ParsedStatus = 300
    /\ curl_in.body = <<" ">>
    /\ ~curl_res.ok
    /\ curl_res.msg = <<"HTTP ", "3", "0", "0", ": ", "(empty response body)">>

----------------------------------------------------------------------------
(* C8 *)

\* C8: in a direct deployment the external steps run in the order build,
\* push, trigger, each at most once and each only after the previous one
\* exited zero; a non-zero exit of build or push is the last step of the run,
\* which aborts with a non-zero exit and the failure text of that step.
C8_BuildPushTriggerOrder ==
    DirectDeployment =>
        /\ Len(calls) <= 3
        /\ Len(calls) >= 1 =>
              calls[1].argv = << <<"docker">>, <<"build">>, <<"-t">>, opts.image.val, <<".">> >>
        /\ Len(calls) >= 2 =>
              /\ calls[1].returncode = 0
              /\ calls[2].argv = << <<"docker">>, <<"push">>, opts.image.val >>
        /\ Len(calls) >= 3 =>
              /\ calls[2].returncode = 0
              /\ IsCurl(calls[3])
        /\ \A i \in 1..Len(calls) :
              (IsDocker(calls[i]) /\ calls[i].returncode # 0) =>
                  /\ i = Len(calls)
                  /\ pc = "failed" /\ exit_code # 0
                  /\ err.kind = "ClickException"
                  /\ err.msg = <<"Command ">> \o Join(calls[i].argv, <<" ">>)
                                 \o <<" returned non-zero exit status ">>
                                 \o IntText(calls[i].returncode) \o <<".">>

\* The push failed after a successful build, with trigger options supplied:
\* the run stopped there
C8_Witness ==
    /\ DirectDeployment
    /\ AllApiOptions /\ Supplied(opts.deploy_url)
    /\ Len(calls) = 2
    /\ calls[1].returncode = 0 /\ calls[2].returncode # 0
    /\ pc = "failed"

----------------------------------------------------------------------------
(* C9 *)

\* The lines of a text, split at its newline atoms
RECURSIVE SplitLines(_)
SplitLines(text) ==
    LET nl == {i \in 1..Len(text) : text[i] = "\n"}
    IN  IF nl = {} THEN <<text>>
        ELSE LET first == CHOOSE i \in nl : \A j \in nl : i <= j
             IN  <<SubSeq(text, 1, first - 1)>>
                 \o SplitLines(SubSeq(text, first + 1, Len(text)))

NotFramework(req) == ~NamesFramework(req)

\* The framework requirement a run resolves to
ResolvedFramework ==
    LET named == {i \in 1..Len(opts.install) : NamesFramework(opts.install[i])}
    IN  IF named # {}
        THEN opts.install[CHOOSE i \in named : \A j \in named : i <= j]
        ELSE IF Supplied(opts.branch)
        THEN <<"https://github.com/simonw/datasette/archive/">> \o opts.branch.val \o <<".zip">>
        ELSE Datasette

DependencyListOk(dir) ==
    "requirements.txt" \in DOMAIN dir =>
        LET lines == SplitLines(dir["requirements.txt"])
        IN  /\ Len(lines) >= 3
            /\ lines[1] = ResolvedFramework
            /\ lines[2] = <<"pysqlite3-binary">>
            /\ lines[3] = <<"uvicorn">>
            /\ SubSeq(lines, 4, Len(lines)) = SelectSeq(opts.install, NotFramework)
            /\ \A i \in 4..Len(lines) : ~NamesFramework(lines[i])

\* C9: for an install list and branch override that do not conflict, the
\* dependency-list file holds, one per line, the resolved framework
\* requirement (the explicit one from the install list, else the source
\* archive URL of the branch, else the bare name), then pysqlite3-binary and
\* uvicorn, then the remaining non-framework install entries in their
\* original order, none of which is a framework requirement.
C9_DependencyList ==
    ~BranchAndFrameworkInstall => (DependencyListOk(bundle) /\ DependencyListOk(generated))

\* A generated dependency list for an install list with two framework
\* requirements and no branch
C9_Witness ==
    /\ "requirements.txt" \in DOMAIN generated
    /\ opts.install = << Datasette \o <<"=", "=", "1">>, Datasette >>
    /\ generated["requirements.txt"] =
          Datasette \o <<"=", "=", "1", "\n", "pysqlite3-binary", "\n", "uvicorn">>

\* A dependency list resolved from a branch override, with other install
\* entries kept in order
C9_WitnessBranch ==
    /\ "requirements.txt" \in DOMAIN bundle
    /\ Supplied(opts.branch)
    /\ Len(opts.install) = 2 /\ opts.install[1] # opts.install[2]
    /\ SubSeq(SplitLines(bundle["requirements.txt"]), 4, 5) = opts.install

----------------------------------------------------------------------------
(* C10 *)

\* C10: generate-workflow mode short-circuits: whatever the other options are
\* the run emits the fixed workflow text (with the deploy-action reference
\* benbristow/dokploy-deploy-action@0.0.1) and exits zero, with no file
\* written, no bundle staged and no process or network call made.
C10_GenerateWorkflow ==
    opts.generate_github_actions =>
        /\ bundle = EmptyDir
        /\ generated = EmptyDir
        /\ calls = <<>>
        /\ pc \in {"start", "done"}
        /\ pc = "done" =>
              /\ exit_code = 0
              /\ err = NoError
              /\ Len(out) = 1
              /\ out[1].stream = "stdout"
              /\ "        uses: benbristow/dokploy-deploy-action@0.0.1" \in Range(out[1].text)
              /\ out[1].text = SubSeq(github_actions_workflow, 1, Len(out[1].text))

\* The workflow was emitted although a generate directory, a branch/install
\* conflict and no image were supplied
C10_Witness ==
    /\ opts.generate_github_actions
    /\ Supplied(opts.generate_dir)
    /\ BranchAndFrameworkInstall
    /\ ~Supplied(opts.image)
    /\ pc = "done"
    /\ Len(out) = 1

----------------------------------------------------------------------------
(* _looks_like_datasette_requirement on its own: every requirement text *)

\* What may come before the name: nothing, whitespace, another character
ReqLeads == {<<>>, <<" ">>, <<"\t">>, <<"x">>}

\* "datasette", "Datasette", "DATASETTE", "datasett" and nothing at all
ReqNames ==
    { Datasette,
      <<"D">> \o Tail(Datasette),
      <<"D", "A", "T", "A", "S", "E", "T", "T", "E">>,
      SubSeq(Datasette, 1, Len(Datasette) - 1),
      <<>> }

\* What may follow the name
ReqTailChars == {"=", "<", ">", "!", "~", "[", " ", "-", "e", "\n", ";", "1"}

Requirements ==
    {None} \cup { Some(lead \o name \o tail) :
                  lead \in ReqLeads, name \in ReqNames,
                  tail \in SeqsUpTo(ReqTailChars, MaxTailLen) }

InitReq ==
    /\ opts \in {o \in TriggerPresets : ~Truthy(o.deploy_url)}
    /\ pc = "req_check"
    /\ bundle = EmptyDir
    /\ generated = EmptyDir
    /\ calls = <<>>
    /\ out = <<>>
    /\ exit_code = 0
    /\ err = NoError
    /\ curl_in = NoCurl
    /\ curl_res = NoResult
    /\ req_in \in Requirements
    /\ req_res = FALSE

LooksLikeDatasetteRequirement ==
    /\ pc = "req_check"
    /\ req_res' = _looks_like_datasette_requirement(req_in)
    /\ pc' = "req_done"
    /\ UNCHANGED <<opts, bundle, generated, calls, out, exit_code, err, curl_in,
                   curl_res, req_in>>

NextReq == LooksLikeDatasetteRequirement

SpecReq == InitReq /\ [][NextReq]_vars

----------------------------------------------------------------------------
(* C11 *)

ReqDone == pc = "req_done"

NameDelimiters == {"=", "<", ">", "!", "~", "[", " "}

\* text is exactly the framework name, or the name followed at once by one
\* of the delimiters
IsNameOrNameThenDelimiter(text) ==
    /\ Len(text) >= Len(Datasette)
    /\ \A i \in 1..Len(Datasette) : text[i] = Datasette[i]
    /\ Len(text) > Len(Datasette) => text[Len(Datasette) + 1] \in NameDelimiters

\* C11 as stated: a requirement is recognised iff the string is exactly
\* datasette or starts with datasette followed at once by one of
\* = < > ! ~ [ or a space.
C11_AsStated ==
    ReqDone => (req_res <=> (req_in.some /\ IsNameOrNameThenDelimiter(req_in.val)))

\* C11 (amended): a requirement is recognised iff, once surrounding
\* whitespace is trimmed and letters are lower-cased, it is exactly datasette
\* or starts with datasette followed at once by one of = < > ! ~ [ or a
\* space; in particular datasette-foo, the empty string and a missing value
\* are not recognised.
C11_LooksLikeDatasette ==
    ReqDone =>
        /\ req_res <=> (req_in.some /\ IsNameOrNameThenDelimiter(Lower(Strip(req_in.val))))
        /\ req_in \in {None, Some(<<>>), Some(Datasette \o <<"-", "e">>)} => ~req_res

\* " Datasette>1" was recognised
C11_Witness ==
    /\ ReqDone
    /\ req_in = Some(<<" ", "D">> \o Tail(Datasette) \o <<">", "1">>)
    /\ req_res

\* "datasette-e", the empty string and a missing value were each turned down
C11_WitnessRefused ==
    /\ ReqDone
    /\ req_in = Some(Datasette \o <<"-", "e">>)
    /\ ~req_res

====
